---- MODULE Spec2Model ----
(***************************************************************************)
(* Post scheduling and publication engine of the Social-Media-Manager.     *)
(*                                                                         *)
(* The store (posts, social_accounts), the scheduler of                    *)
(* src/schedulers/postScheduler.js and the API handler that creates posts  *)
(* are modelled as a state machine.  A step of a batch cycle is one        *)
(* completion of an awaited I/O operation (a database query or the         *)
(* transport call) together with the synchronous code that follows it up   *)
(* to the next await, which is how the Node.js event loop interleaves the  *)
(* handlers.                                                               *)
(*                                                                         *)
(* Time is counted in whole days since 2024-01-01 (day 0); the time of day *)
(* is left out because setDate/setMonth preserve it.                       *)
(***************************************************************************)
EXTENDS Integers, Sequences, FiniteSets, TLC

VARIABLES
    now,                \* the clock (new Date(), NOW()), in days
    posts,              \* table posts: sequence of rows, a row's id is its index
    accounts,           \* table social_accounts, read-only for the scheduler
    api,                \* the request the API router is serving, if any
    SCHEDULER_ENABLED,  \* process.env.SCHEDULER_ENABLED !== 'false'
    schedulerTask,      \* TRUE when the module holds a cron task, FALSE for null
    cronTasks,          \* the cron tasks that are scheduled (created and not stopped)
    cycles,             \* the executions of processScheduledPosts in flight
    calls,              \* history: postToPlatform invocations made by cycles, per post
    faults,             \* history: store operations that have failed
    window,             \* history: cycles completed back to back, NULL when interrupted
    settled             \* history: posts whose status those cycles wrote

vars == <<now, posts, accounts, api, SCHEDULER_ENABLED, schedulerTask, cronTasks, cycles, calls,
          faults, window, settled>>

----------------------------------------------------------------------------
(* Bounds of the model *)

MaxPosts == 2        \* rows the posts table can hold
MaxAdvance == 2      \* days the clock can advance after the start
MaxCycles == 2       \* executions of processScheduledPosts in flight at once
MaxFaults == 1       \* store operations that can fail in one behaviour

(* Program constants *)

BATCH_SIZE == 10

NULL == -1           \* SQL NULL / JS null of a numeric column
NULLSTR == "NULL"    \* SQL NULL of a text column

StartDays == {29}    \* 2024-01-30

----------------------------------------------------------------------------
(* JavaScript Date arithmetic on day numbers *)

IsLeap(y) == (y % 4 = 0 /\ y % 100 # 0) \/ y % 400 = 0

DaysInMonth(y, m) ==
    IF m = 1 THEN (IF IsLeap(y) THEN 29 ELSE 28)
    ELSE IF m \in {3, 5, 8, 10} THEN 30 ELSE 31

DaysInYear(y) == IF IsLeap(y) THEN 366 ELSE 365

RECURSIVE DaysBeforeMonth(_, _)
DaysBeforeMonth(y, m) ==
    IF m = 0 THEN 0 ELSE DaysBeforeMonth(y, m - 1) + DaysInMonth(y, m - 1)

RECURSIVE DaysBeforeYear(_)
DaysBeforeYear(y) ==
    IF y <= 2024 THEN 0 ELSE DaysBeforeYear(y - 1) + DaysInYear(y - 1)

\* MakeDay: month and date may be out of range and carry over, as in JS
MakeDay(y, m, dd) ==
    DaysBeforeYear(y + (m \div 12)) + DaysBeforeMonth(y + (m \div 12), m % 12) + dd - 1

RECURSIVE YearOf(_, _)
YearOf(d, y) == IF d < DaysInYear(y) THEN y ELSE YearOf(d - DaysInYear(y), y + 1)

getFullYear(d) == YearOf(d, 2024)

RECURSIVE MonthOf(_, _, _)
MonthOf(r, y, m) ==
    IF r < DaysInMonth(y, m) THEN m ELSE MonthOf(r - DaysInMonth(y, m), y, m + 1)

getMonth(d) == MonthOf(d - DaysBeforeYear(getFullYear(d)), getFullYear(d), 0)

getDate(d) == d - MakeDay(getFullYear(d), getMonth(d), 1) + 1

setDate(d, dd) == MakeDay(getFullYear(d), getMonth(d), dd)

setMonth(d, m) == MakeDay(getFullYear(d), m, getDate(d))

----------------------------------------------------------------------------
(* The store *)

PostIds == 1..Len(posts)

Frequencies == {"daily", "weekly", "monthly"}

\* social_accounts rows: the supported platform with a token, an unsupported
\* platform, a missing token, a deactivated account
AccountTable ==
    << [platform |-> "x",         access_token |-> "token", is_active |-> TRUE],
       [platform |-> "instagram", access_token |-> "token", is_active |-> TRUE],
       [platform |-> "x",         access_token |-> NULLSTR, is_active |-> TRUE],
       [platform |-> "x",         access_token |-> "token", is_active |-> FALSE] >>

AccountIds == 1..Len(AccountTable)

NoRepeat == [frequency |-> NULLSTR, until |-> NULL, count |-> NULL]

Repeat(frequency, count) == [frequency |-> frequency, until |-> NULL, count |-> count]

\* the requests clients send to POST /api/posts: the owning account, the due
\* time as days from now (NULL for a draft) and the repeat settings
CreateRequests ==
    { [account |-> 1, offset |-> 0,    repeat |-> NoRepeat],
      [account |-> 1, offset |-> 1,    repeat |-> NoRepeat],
      [account |-> 1, offset |-> 2,    repeat |-> NoRepeat],
      [account |-> 1, offset |-> NULL, repeat |-> NoRepeat],
      [account |-> 2, offset |-> 1,    repeat |-> NoRepeat],
      [account |-> 3, offset |-> 1,    repeat |-> NoRepeat],
      [account |-> 4, offset |-> 1,    repeat |-> NoRepeat],
      [account |-> 1, offset |-> 1,    repeat |-> Repeat("daily", NULL)],
      [account |-> 1, offset |-> 1,    repeat |-> Repeat("weekly", NULL)],
      [account |-> 1, offset |-> 1,    repeat |-> Repeat("monthly", NULL)],
      [account |-> 1, offset |-> 1,    repeat |-> Repeat("daily", 1)],
      [account |-> 1, offset |-> 1,    repeat |-> Repeat("daily", 2)] }

\* INSERT INTO posts of POST /api/posts
NewPost(account_id, scheduledAt, repeat) ==
    [ account_id        |-> account_id,
      status            |-> IF scheduledAt # NULL THEN "scheduled" ELSE "draft",
      mode              |-> "single",
      thread            |-> << >>,
      scheduled_at      |-> scheduledAt,
      posted_at         |-> NULL,
      platform_post_id  |-> NULL,
      platform_thread_ids |-> << >>,
      error_message     |-> NULLSTR,
      repeat_enabled    |-> repeat.frequency # NULLSTR,
      repeat_frequency  |-> repeat.frequency,
      repeat_until      |-> repeat.until,
      repeat_count      |-> repeat.count,
      repeat_parent_id  |-> NULL,
      repeat_occurrence |-> 1 ]

\* an execution of processScheduledPosts: where it is suspended (pc), the rows
\* it selected, the row being processed and the arguments of the pending query;
\* for a thread the locals of postThread (tweetIds, inReplyToId) and the
\* requests it has sent to the platform (the NULL of an id list is << >>)
IdleCycle ==
    [ pc |-> "idle", batch |-> <<>>, idx |-> 0, tr |-> "none",
      msg |-> NULLSTR, postedAt |-> NULL, tweetId |-> NULL, threadIds |-> <<>>,
      next |-> <<>>, requests |-> <<>>, tweetIds |-> <<>>, inReplyToId |-> NULL ]

\* no request of the API in flight
IdleApi == [ op |-> "none", pc |-> "idle" ]

TweetIds == {1001}   \* ids the platform returns for a published item

CycleIds == 1..MaxCycles

Init ==
    /\ now \in StartDays
    /\ posts = <<>>
    /\ accounts = AccountTable
    /\ api = IdleApi
    /\ SCHEDULER_ENABLED \in BOOLEAN
    /\ schedulerTask = FALSE
    /\ cronTasks = 0
    /\ cycles = [c \in CycleIds |-> IdleCycle]
    /\ calls = [p \in 1..MaxPosts |-> 0]
    /\ faults = 0
    /\ window = NULL
    /\ settled = {}

Horizon == CHOOSE d \in {s + MaxAdvance : s \in StartDays} : TRUE

\* POST /api/posts without the test of scheduledAt against the current time
CreatePost_NoFutureTest ==
    /\ Len(posts) < MaxPosts
    /\ \E req \in CreateRequests :
          LET scheduledAt == IF req.offset = NULL THEN NULL ELSE now + req.offset
          IN  posts' = Append(posts, NewPost(req.account, scheduledAt, req.repeat))
    /\ window' = NULL
    /\ settled' = {}
    /\ UNCHANGED <<now, accounts, api, SCHEDULER_ENABLED, schedulerTask, cronTasks, cycles, calls, faults>>

\* POST /api/posts: a draft, or a scheduled post with a due time in the future;
\* a scheduledAt that is not in the future is refused
CreatePost ==
    /\ Len(posts) < MaxPosts
    /\ \E req \in CreateRequests :
          LET scheduledAt == IF req.offset = NULL THEN NULL ELSE now + req.offset
          IN  /\ scheduledAt # NULL => ~(scheduledAt <= now)
              /\ posts' = Append(posts, NewPost(req.account, scheduledAt, req.repeat))
    /\ window' = NULL
    /\ settled' = {}
    /\ UNCHANGED <<now, accounts, api, SCHEDULER_ENABLED, schedulerTask, cronTasks, cycles, calls, faults>>

\* time passes
AdvanceClock ==
    /\ now < Horizon
    /\ now' = now + 1
    /\ window' = NULL
    /\ settled' = {}
    /\ UNCHANGED <<posts, accounts, api, SCHEDULER_ENABLED, schedulerTask, cronTasks, cycles, calls, faults>>

----------------------------------------------------------------------------
(* Batch selection: the SELECT of processScheduledPosts *)

\* the WHERE clause without the test of sa.is_active
DuePosts_AnyAccount(store, accts, t) ==
    { i \in 1..Len(store) :
        /\ store[i].status = "scheduled"
        /\ store[i].scheduled_at # NULL
        /\ store[i].scheduled_at <= t }

\* WHERE p.status = 'scheduled' AND p.scheduled_at <= NOW() AND sa.is_active
DuePosts(store, accts, t) ==
    { i \in 1..Len(store) :
        /\ store[i].status = "scheduled"
        /\ store[i].scheduled_at # NULL
        /\ store[i].scheduled_at <= t
        /\ accts[store[i].account_id].is_active = TRUE }

\* ORDER BY p.scheduled_at ASC LIMIT k: every order of the ids of S by
\* ascending scheduled_at (rows with equal scheduled_at come in any order),
\* cut after k rows
RECURSIVE OrderedLimit(_, _, _)
OrderedLimit(S, store, k) ==
    IF S = {} \/ k = 0 THEN { <<>> }
    ELSE LET first == { i \in S : \A j \in S :
                          store[i].scheduled_at <= store[j].scheduled_at }
         IN  UNION { { <<i>> \o rest : rest \in OrderedLimit(S \ {i}, store, k - 1) }
                     : i \in first }

\* a row of the result: the selected columns of the post and of its account
\* (content, mode, thread, reply_to_id, quote_tweet_id and media are payload)
SelectedRow(store, accts, i) ==
    [ id                |-> i,
      mode              |-> store[i].mode,
      thread            |-> store[i].thread,
      scheduled_at      |-> store[i].scheduled_at,
      repeat_enabled    |-> store[i].repeat_enabled,
      repeat_frequency  |-> store[i].repeat_frequency,
      repeat_until      |-> store[i].repeat_until,
      repeat_count      |-> store[i].repeat_count,
      repeat_parent_id  |-> store[i].repeat_parent_id,
      repeat_occurrence |-> store[i].repeat_occurrence,
      account_id        |-> store[i].account_id,
      platform          |-> accts[store[i].account_id].platform,
      access_token      |-> accts[store[i].account_id].access_token,
      is_active         |-> accts[store[i].account_id].is_active ]

\* the SELECT without its LIMIT
SelectDuePosts_NoLimit(store, accts, t) ==
    { [k \in 1..Len(o) |-> SelectedRow(store, accts, o[k])] :
        o \in OrderedLimit(DuePosts(store, accts, t), store, Len(store)) }

\* the SELECT of processScheduledPosts with LIMIT BATCH_SIZE
SelectDuePosts(store, accts, t) ==
    { [k \in 1..Len(o) |-> SelectedRow(store, accts, o[k])] :
        o \in OrderedLimit(DuePosts(store, accts, t), store, BATCH_SIZE) }

----------------------------------------------------------------------------
(* Recurrence: createNextRecurringPost up to its INSERT *)

Truthy(n) == n # NULL /\ n # 0

Num(n) == IF n = NULL THEN 0 ELSE n

\* the switch over repeat_frequency; NULL for an unknown frequency
NextScheduled(row, t) ==
    LET currentScheduled == IF row.scheduled_at # NULL THEN row.scheduled_at ELSE t
    IN  IF row.repeat_frequency = "daily"
          THEN setDate(currentScheduled, getDate(currentScheduled) + 1)
        ELSE IF row.repeat_frequency = "weekly"
          THEN setDate(currentScheduled, getDate(currentScheduled) + 7)
        ELSE IF row.repeat_frequency = "monthly"
          THEN setMonth(currentScheduled, getMonth(currentScheduled) + 1)
        ELSE NULL

\* without the test of the next occurrence against repeat_until
createNextRecurringPost_NoUntilTest(row, t) ==
    LET nextScheduled == NextScheduled(row, t)
    IN  IF row.repeat_until # NULL /\ row.repeat_until < t THEN << >>
        ELSE IF Truthy(row.repeat_count)
                /\ Num(row.repeat_occurrence) >= row.repeat_count THEN << >>
        ELSE IF nextScheduled = NULL THEN << >>
        ELSE << [ account_id        |-> row.account_id,
                  status            |-> "scheduled",
                  mode              |-> row.mode,
                  thread            |-> row.thread,
                  scheduled_at      |-> nextScheduled,
                  posted_at         |-> NULL,
                  platform_post_id  |-> NULL,
                  platform_thread_ids |-> << >>,
                  error_message     |-> NULLSTR,
                  repeat_enabled    |-> TRUE,
                  repeat_frequency  |-> row.repeat_frequency,
                  repeat_until      |-> row.repeat_until,
                  repeat_count      |-> row.repeat_count,
                  repeat_parent_id  |-> IF Truthy(row.repeat_parent_id)
                                          THEN row.repeat_parent_id ELSE row.id,
                  repeat_occurrence |-> (IF Truthy(row.repeat_occurrence)
                                          THEN row.repeat_occurrence ELSE 1) + 1 ] >>

\* the count test with > in the place of >=
createNextRecurringPost_CountOffByOne(row, t) ==
    LET nextScheduled == NextScheduled(row, t)
    IN  IF row.repeat_until # NULL /\ row.repeat_until < t THEN << >>
        ELSE IF Truthy(row.repeat_count)
                /\ Num(row.repeat_occurrence) > row.repeat_count THEN << >>
        ELSE IF nextScheduled = NULL THEN << >>
        ELSE IF row.repeat_until # NULL /\ nextScheduled > row.repeat_until THEN << >>
        ELSE << [ account_id        |-> row.account_id,
                  status            |-> "scheduled",
                  mode              |-> row.mode,
                  thread            |-> row.thread,
                  scheduled_at      |-> nextScheduled,
                  posted_at         |-> NULL,
                  platform_post_id  |-> NULL,
                  platform_thread_ids |-> << >>,
                  error_message     |-> NULLSTR,
                  repeat_enabled    |-> TRUE,
                  repeat_frequency  |-> row.repeat_frequency,
                  repeat_until      |-> row.repeat_until,
                  repeat_count      |-> row.repeat_count,
                  repeat_parent_id  |-> IF Truthy(row.repeat_parent_id)
                                          THEN row.repeat_parent_id ELSE row.id,
                  repeat_occurrence |-> (IF Truthy(row.repeat_occurrence)
                                          THEN row.repeat_occurrence ELSE 1) + 1 ] >>

\* without the test of repeat_until against the current time
createNextRecurringPost_NoPassedTest(row, t) ==
    LET nextScheduled == NextScheduled(row, t)
    IN  IF Truthy(row.repeat_count)
           /\ Num(row.repeat_occurrence) >= row.repeat_count THEN << >>
        ELSE IF nextScheduled = NULL THEN << >>
        ELSE IF row.repeat_until # NULL /\ nextScheduled > row.repeat_until THEN << >>
        ELSE << [ account_id        |-> row.account_id,
                  status            |-> "scheduled",
                  mode              |-> row.mode,
                  thread            |-> row.thread,
                  scheduled_at      |-> nextScheduled,
                  posted_at         |-> NULL,
                  platform_post_id  |-> NULL,
                  platform_thread_ids |-> << >>,
                  error_message     |-> NULLSTR,
                  repeat_enabled    |-> TRUE,
                  repeat_frequency  |-> row.repeat_frequency,
                  repeat_until      |-> row.repeat_until,
                  repeat_count      |-> row.repeat_count,
                  repeat_parent_id  |-> IF Truthy(row.repeat_parent_id)
                                          THEN row.repeat_parent_id ELSE row.id,
                  repeat_occurrence |-> (IF Truthy(row.repeat_occurrence)
                                          THEN row.repeat_occurrence ELSE 1) + 1 ] >>

\* << >> when no occurrence is spawned, else the row to insert
createNextRecurringPost(row, t) ==
    LET nextScheduled == NextScheduled(row, t)
    IN  IF row.repeat_until # NULL /\ row.repeat_until < t THEN << >>
        ELSE IF Truthy(row.repeat_count)
                /\ Num(row.repeat_occurrence) >= row.repeat_count THEN << >>
        ELSE IF nextScheduled = NULL THEN << >>
        ELSE IF row.repeat_until # NULL /\ nextScheduled > row.repeat_until THEN << >>
        ELSE << [ account_id        |-> row.account_id,
                  status            |-> "scheduled",
                  mode              |-> row.mode,
                  thread            |-> row.thread,
                  scheduled_at      |-> nextScheduled,
                  posted_at         |-> NULL,
                  platform_post_id  |-> NULL,
                  platform_thread_ids |-> << >>,
                  error_message     |-> NULLSTR,
                  repeat_enabled    |-> TRUE,
                  repeat_frequency  |-> row.repeat_frequency,
                  repeat_until      |-> row.repeat_until,
                  repeat_count      |-> row.repeat_count,
                  repeat_parent_id  |-> IF Truthy(row.repeat_parent_id)
                                          THEN row.repeat_parent_id ELSE row.id,
                  repeat_occurrence |-> (IF Truthy(row.repeat_occurrence)
                                          THEN row.repeat_occurrence ELSE 1) + 1 ] >>

----------------------------------------------------------------------------
(* processPost *)

CurrentRow(cy) == cy.batch[cy.idx]

\* the row cycle c is processing before the step
RowOf(c) == CurrentRow(cycles[c])

\* processPost without the test of the access token
StartPost_NoTokenCheck(cy) ==
    LET row == CurrentRow(cy)
    IN  IF row.platform # "x"
          THEN [cy EXCEPT !.pc = "mark_failed", !.msg = "Platform not yet supported"]
        ELSE [cy EXCEPT !.pc = "transport"]

\* processPost from its entry to its first await: the two validations, then
\* either markPostAsFailed or postToPlatform is called
StartPost(cy) ==
    LET row == CurrentRow(cy)
    IN  IF row.platform # "x"
          THEN [cy EXCEPT !.pc = "mark_failed", !.msg = "Platform not yet supported"]
        ELSE IF row.access_token = NULLSTR
          THEN [cy EXCEPT !.pc = "mark_failed", !.msg = "No access token found"]
        ELSE [cy EXCEPT !.pc = "transport"]

\* processPost returns: the for loop of processScheduledPosts takes the next
\* row, or the cycle completes
FinishPost(cy) ==
    IF cy.idx = Len(cy.batch)
      THEN IdleCycle
      ELSE StartPost([IdleCycle EXCEPT !.batch = cy.batch, !.idx = cy.idx + 1])

InFlight == { c \in CycleIds : cycles[c].pc # "idle" }

\* a cycle moves on: the new state of the cycle and the history it leaves
Advance(c, cy, wrote) ==
    /\ cycles' = [cycles EXCEPT ![c] = cy]
    /\ calls' = IF cy.pc = "transport" /\ cy.requests = << >>
                  THEN [calls EXCEPT ![CurrentRow(cy).id] = @ + 1] ELSE calls
    /\ window' = IF window = NULL \/ (window = 1 /\ cy.pc = "idle") THEN NULL
                 ELSE IF cy.pc = "idle" THEN 1 ELSE window
    /\ settled' = IF window' = NULL THEN {}
                  ELSE IF window = 0 THEN settled \cup wrote ELSE settled

\* processScheduledPosts is called: it returns at once when the scheduler is
\* disabled, else it issues the SELECT
BeginCycle ==
    IF ~SCHEDULER_ENABLED
      THEN UNCHANGED <<now, posts, accounts, api, SCHEDULER_ENABLED, cycles, calls, faults,
                       window, settled>>
      ELSE /\ \E c \in CycleIds :
                /\ cycles[c].pc = "idle"
                /\ \A d \in CycleIds : d < c => cycles[d].pc # "idle"
                /\ cycles' = [cycles EXCEPT ![c] =
                                 [IdleCycle EXCEPT !.pc = "select"]]
           /\ window' = IF InFlight # {} THEN NULL
                        ELSE IF window = NULL THEN 0 ELSE window
           /\ settled' = IF InFlight # {} \/ window = NULL THEN {} ELSE settled
           /\ UNCHANGED <<now, posts, accounts, api, SCHEDULER_ENABLED, calls, faults>>

\* processScheduledPosts without its try/catch: the rejected SELECT is an
\* unhandled rejection, which ends the process and its cron task
SelectDone_Unhandled(c) ==
    /\ cycles[c].pc = "select"
    /\ \/ /\ \E rows \in SelectDuePosts(posts, accounts, now) :
               Advance(c, IF Len(rows) = 0
                            THEN IdleCycle
                            ELSE StartPost([cycles[c] EXCEPT !.batch = rows, !.idx = 1]),
                       {})
          /\ UNCHANGED <<faults, schedulerTask, cronTasks>>
       \/ /\ faults < MaxFaults
          /\ faults' = faults + 1
          /\ Advance(c, IdleCycle, {})
          /\ schedulerTask' = FALSE
          /\ cronTasks' = 0
    /\ UNCHANGED <<now, posts, accounts, api, SCHEDULER_ENABLED>>

\* the SELECT resolves with the due rows, or rejects
SelectDone(c) ==
    /\ cycles[c].pc = "select"
    /\ \/ /\ \E rows \in SelectDuePosts(posts, accounts, now) :
               Advance(c, IF Len(rows) = 0
                            THEN IdleCycle
                            ELSE StartPost([cycles[c] EXCEPT !.batch = rows, !.idx = 1]),
                       {})
          /\ UNCHANGED faults
       \/ /\ faults < MaxFaults
          /\ faults' = faults + 1
          /\ Advance(c, IdleCycle, {})
    /\ UNCHANGED <<now, posts, accounts, api, SCHEDULER_ENABLED, schedulerTask, cronTasks>>

\* postToPlatform resolves with success and the published id; processPost
\* issues the UPDATE that records it, with postedAt = new Date()
TransportSucceeds(c) ==
    /\ cycles[c].pc = "transport"
    /\ RowOf(c).mode # "thread"
    /\ \E t \in TweetIds :
          Advance(c, [cycles[c] EXCEPT !.pc = "update_posted", !.tr = "success",
                                       !.postedAt = now, !.tweetId = t], {})
    /\ UNCHANGED <<now, posts, accounts, api, SCHEDULER_ENABLED, schedulerTask, cronTasks, faults>>

\* postToPlatform resolves with failure and a message; processPost calls
\* markPostAsFailed with it
TransportFails(c) ==
    /\ cycles[c].pc = "transport"
    /\ RowOf(c).mode # "thread"
    /\ Advance(c, [cycles[c] EXCEPT !.pc = "mark_failed", !.tr = "failure",
                                    !.msg = "transport error"], {})
    /\ UNCHANGED <<now, posts, accounts, api, SCHEDULER_ENABLED, schedulerTask, cronTasks, faults>>

----------------------------------------------------------------------------
(* postThread: the transport of a post of mode 'thread' *)

MaxSegments == 3     \* segments of the longest thread

Segments == [k \in 1..(MaxSegments + 1) |-> k]

\* the values of the column thread: null, and the arrays of 1..MaxSegments
\* texts (a text is identified by its place in Segments)
Threads == { SubSeq(Segments, 1, n) : n \in 0..MaxSegments }

ThreadTweetIds == {2001, 2002}   \* ids the platform returns for a segment

\* the request postThread is awaiting: the text of the next segment and, after
\* the first one, reply.in_reply_to_tweet_id
ThreadRequest(cy) ==
    [ text  |-> CurrentRow(cy).thread[Len(cy.tweetIds) + 1],
      reply |-> cy.inReplyToId ]

\* postThread returns at once for a thread that is no array of 2 texts or more
ThreadRejected(c) ==
    LET cy == cycles[c]
    IN  /\ cy.pc = "transport"
        /\ RowOf(c).mode = "thread"
        /\ Len(RowOf(c).thread) < 2
        /\ Advance(c, [cy EXCEPT !.pc = "mark_failed", !.tr = "failure",
                                 !.msg = "Thread must have at least 2 tweets"], {})
        /\ UNCHANGED <<now, posts, accounts, api, SCHEDULER_ENABLED, schedulerTask,
                       cronTasks, faults>>

\* postThread where every reply refers to the first tweet of the thread
ThreadSegmentPosted_ReplyToFirst(c) ==
    LET cy == cycles[c]
        n  == Len(RowOf(c).thread)
    IN  /\ cy.pc = "transport"
        /\ RowOf(c).mode = "thread"
        /\ n >= 2
        /\ \E t \in ThreadTweetIds :
              LET ids  == Append(cy.tweetIds, t)
                  sent == Append(cy.requests, ThreadRequest(cy))
              IN  IF Len(ids) = n
                    THEN Advance(c, [cy EXCEPT !.pc = "update_posted", !.tr = "success",
                                               !.postedAt = now, !.tweetId = ids[1],
                                               !.threadIds = ids, !.requests = sent,
                                               !.tweetIds = ids, !.inReplyToId = ids[1]],
                                 {})
                    ELSE Advance(c, [cy EXCEPT !.requests = sent, !.tweetIds = ids,
                                               !.inReplyToId = ids[1]], {})
        /\ UNCHANGED <<now, posts, accounts, api, SCHEDULER_ENABLED, schedulerTask,
                       cronTasks, faults>>

\* the platform accepts the segment postThread has sent: its id is pushed on
\* tweetIds and becomes inReplyToId; after the last segment postThread returns
\* { success, tweetId: tweetIds[0], threadIds: tweetIds } and processPost
\* issues the UPDATE that records it
ThreadSegmentPosted(c) ==
    LET cy == cycles[c]
        n  == Len(RowOf(c).thread)
    IN  /\ cy.pc = "transport"
        /\ RowOf(c).mode = "thread"
        /\ n >= 2
        /\ \E t \in ThreadTweetIds :
              LET ids  == Append(cy.tweetIds, t)
                  sent == Append(cy.requests, ThreadRequest(cy))
              IN  IF Len(ids) = n
                    THEN Advance(c, [cy EXCEPT !.pc = "update_posted", !.tr = "success",
                                               !.postedAt = now, !.tweetId = ids[1],
                                               !.threadIds = ids, !.requests = sent,
                                               !.tweetIds = ids, !.inReplyToId = t],
                                 {})
                    ELSE Advance(c, [cy EXCEPT !.requests = sent, !.tweetIds = ids,
                                               !.inReplyToId = t], {})
        /\ UNCHANGED <<now, posts, accounts, api, SCHEDULER_ENABLED, schedulerTask,
                       cronTasks, faults>>

\* postThread that returns the ids it has when a reply is refused
ThreadSegmentFails_ReturnsPartial(c) ==
    LET cy == cycles[c]
    IN  /\ cy.pc = "transport"
        /\ RowOf(c).mode = "thread"
        /\ Len(RowOf(c).thread) >= 2
        /\ IF cy.tweetIds = << >>
             THEN Advance(c, [cy EXCEPT !.pc = "mark_failed", !.tr = "failure",
                                        !.msg = "transport error",
                                        !.requests = Append(@, ThreadRequest(cy))], {})
             ELSE Advance(c, [cy EXCEPT !.pc = "update_posted", !.tr = "success",
                                        !.postedAt = now, !.tweetId = cy.tweetIds[1],
                                        !.threadIds = cy.tweetIds,
                                        !.requests = Append(@, ThreadRequest(cy))], {})
        /\ UNCHANGED <<now, posts, accounts, api, SCHEDULER_ENABLED, schedulerTask,
                       cronTasks, faults>>

\* the request of a segment fails: the catch block of postThread returns
\* { success: false, error } and processPost calls markPostAsFailed with it
ThreadSegmentFails(c) ==
    LET cy == cycles[c]
    IN  /\ cy.pc = "transport"
        /\ RowOf(c).mode = "thread"
        /\ Len(RowOf(c).thread) >= 2
        /\ Advance(c, [cy EXCEPT !.pc = "mark_failed", !.tr = "failure",
                                 !.msg = "transport error",
                                 !.requests = Append(@, ThreadRequest(cy))], {})
        /\ UNCHANGED <<now, posts, accounts, api, SCHEDULER_ENABLED, schedulerTask,
                       cronTasks, faults>>

\* UPDATE posts SET status = 'posted', ... WHERE id = $4
UpdatePostedRow(post, postedAt, tweetId, threadIds) ==
    [post EXCEPT !.status = "posted",
                 !.posted_at = postedAt,
                 !.platform_post_id = tweetId,
                 !.platform_thread_ids = threadIds,
                 !.error_message = NULLSTR]

\* the success branch with its own try/catch around the UPDATE: a rejected
\* UPDATE is logged and processPost returns
UpdatePosted_SwallowsError(c) ==
    LET cy == cycles[c]
        row == CurrentRow(cy)
        spawn == IF row.repeat_enabled /\ row.repeat_frequency # NULLSTR
                   THEN createNextRecurringPost(row, now) ELSE << >>
    IN  /\ cy.pc = "update_posted"
        /\ \/ /\ posts' = [posts EXCEPT ![row.id] =
                              UpdatePostedRow(@, cy.postedAt, cy.tweetId, cy.threadIds)]
              /\ UNCHANGED faults
              /\ IF spawn = << >>
                   THEN Advance(c, FinishPost(cy), {row.id})
                   ELSE Advance(c, [cy EXCEPT !.pc = "insert_next", !.next = spawn],
                                {row.id})
           \/ /\ faults < MaxFaults
              /\ faults' = faults + 1
              /\ posts' = posts
              /\ Advance(c, FinishPost(cy), {})
        /\ UNCHANGED <<now, accounts, api, SCHEDULER_ENABLED, schedulerTask, cronTasks>>

\* the UPDATE of a success resolves and the recurrence is handled, or it
\* rejects and the catch block of processPost calls markPostAsFailed
UpdatePosted(c) ==
    LET cy == cycles[c]
        row == CurrentRow(cy)
        spawn == IF row.repeat_enabled /\ row.repeat_frequency # NULLSTR
                   THEN createNextRecurringPost(row, now) ELSE << >>
    IN  /\ cy.pc = "update_posted"
        /\ \/ /\ posts' = [posts EXCEPT ![row.id] =
                              UpdatePostedRow(@, cy.postedAt, cy.tweetId, cy.threadIds)]
              /\ UNCHANGED faults
              /\ IF spawn = << >>
                   THEN Advance(c, FinishPost(cy), {row.id})
                   ELSE Advance(c, [cy EXCEPT !.pc = "insert_next", !.next = spawn],
                                {row.id})
           \/ /\ faults < MaxFaults
              /\ faults' = faults + 1
              /\ posts' = posts
              /\ Advance(c, [cy EXCEPT !.pc = "mark_failed", !.msg = "store error"], {})
        /\ UNCHANGED <<now, accounts, api, SCHEDULER_ENABLED, schedulerTask, cronTasks>>

\* the rows the posts table can hold in this behaviour: the posts the history
\* of the transport calls has a place for
Capacity == Len(calls)

\* createNextRecurringPost without its try/catch: the rejected INSERT reaches
\* the catch block of processPost, which calls markPostAsFailed
InsertNext_Propagates(c) ==
    LET cy == cycles[c]
    IN  /\ cy.pc = "insert_next"
        /\ \/ /\ Len(posts) < Capacity
              /\ posts' = Append(posts, cy.next[1])
              /\ UNCHANGED faults
              /\ Advance(c, FinishPost(cy), {})
           \/ /\ faults < MaxFaults
              /\ faults' = faults + 1
              /\ posts' = posts
              /\ Advance(c, [cy EXCEPT !.pc = "mark_failed", !.msg = "store error"], {})
        /\ UNCHANGED <<now, accounts, api, SCHEDULER_ENABLED, schedulerTask, cronTasks>>

\* the INSERT of the next occurrence resolves or rejects (logged only)
InsertNext(c) ==
    LET cy == cycles[c]
    IN  /\ cy.pc = "insert_next"
        /\ \/ /\ Len(posts) < Capacity
              /\ posts' = Append(posts, cy.next[1])
              /\ UNCHANGED faults
              /\ Advance(c, FinishPost(cy), {})
           \/ /\ faults < MaxFaults
              /\ faults' = faults + 1
              /\ posts' = posts
              /\ Advance(c, FinishPost(cy), {})
        /\ UNCHANGED <<now, accounts, api, SCHEDULER_ENABLED, schedulerTask, cronTasks>>

\* the UPDATE of markPostAsFailed without status = 'failed'
MarkFailedRow_KeepsStatus(post, errorMessage) ==
    [post EXCEPT !.error_message = errorMessage]

\* UPDATE posts SET status = 'failed', error_message = $1 WHERE id = $2
MarkFailedRow(post, errorMessage) ==
    [post EXCEPT !.status = "failed", !.error_message = errorMessage]

\* markPostAsFailed without its try/catch: a rejected UPDATE propagates to the
\* catch block of processScheduledPosts, which ends the cycle
MarkFailed_Propagates(c) ==
    LET cy == cycles[c]
        row == CurrentRow(cy)
    IN  /\ cy.pc = "mark_failed"
        /\ \/ /\ posts' = [posts EXCEPT ![row.id] = MarkFailedRow(@, cy.msg)]
              /\ UNCHANGED faults
              /\ Advance(c, FinishPost(cy), {row.id})
           \/ /\ faults < MaxFaults
              /\ faults' = faults + 1
              /\ posts' = posts
              /\ Advance(c, IdleCycle, {})
        /\ UNCHANGED <<now, accounts, api, SCHEDULER_ENABLED, schedulerTask, cronTasks>>

\* markPostAsFailed followed by the recurrence: createNextRecurringPost called
\* after the failure branch as well
MarkFailed_ThenRecurrence(c) ==
    LET cy == cycles[c]
        row == CurrentRow(cy)
        spawn == IF row.repeat_enabled /\ row.repeat_frequency # NULLSTR
                   THEN createNextRecurringPost(row, now) ELSE << >>
    IN  /\ cy.pc = "mark_failed"
        /\ posts' = [posts EXCEPT ![row.id] = MarkFailedRow(@, cy.msg)]
        /\ UNCHANGED faults
        /\ IF spawn = << >>
             THEN Advance(c, FinishPost(cy), {row.id})
             ELSE Advance(c, [cy EXCEPT !.pc = "insert_next", !.next = spawn], {row.id})
        /\ UNCHANGED <<now, accounts, api, SCHEDULER_ENABLED, schedulerTask, cronTasks>>

\* markPostAsFailed: the UPDATE resolves, or rejects (logged only)
MarkFailed(c) ==
    LET cy == cycles[c]
        row == CurrentRow(cy)
    IN  /\ cy.pc = "mark_failed"
        /\ \/ /\ posts' = [posts EXCEPT ![row.id] = MarkFailedRow(@, cy.msg)]
              /\ UNCHANGED faults
              /\ Advance(c, FinishPost(cy), {row.id})
           \/ /\ faults < MaxFaults
              /\ faults' = faults + 1
              /\ posts' = posts
              /\ Advance(c, FinishPost(cy), {})
        /\ UNCHANGED <<now, accounts, api, SCHEDULER_ENABLED, schedulerTask, cronTasks>>

----------------------------------------------------------------------------
(* The API router: manual publish and PATCH of a stored post. The router
   serves a request in steps, one per awaited call, between which the cycles
   of the scheduler run *)

\* the outcome of a store query of the router: resolved (TRUE) or rejected
QueryOutcomes == IF faults < MaxFaults THEN BOOLEAN ELSE {TRUE}

\* the successful results of postToPlatform for a stored post
PublishResults(post) ==
    IF post.mode = "thread"
      THEN { [tweetId |-> ids[1], threadIds |-> ids] :
                ids \in IF Len(post.thread) >= 2
                          THEN [1..Len(post.thread) -> ThreadTweetIds] ELSE {} }
      ELSE { [tweetId |-> t, threadIds |-> << >>] : t \in TweetIds }

\* POST /api/posts/:id/post up to postToPlatform: the post is read; a post
\* that is 'posted' is refused, any other one is published with the status it
\* has; a rejected SELECT is handled by the catch block
PublishSelect(p) ==
    /\ api.pc = "idle"
    /\ p \in PostIds
    /\ \E ok \in QueryOutcomes :
          /\ faults' = IF ok THEN faults ELSE faults + 1
          /\ api' = IF ~ok
                      THEN [op |-> "publish", pc |-> "catch", id |-> p,
                            msg |-> "store error"]
                    ELSE IF posts[p].status = "posted" THEN IdleApi
                    ELSE [op |-> "publish", pc |-> "transport", id |-> p,
                          post |-> posts[p], postedAt |-> now]
    /\ UNCHANGED <<now, posts, accounts, SCHEDULER_ENABLED, schedulerTask, cronTasks,
                   cycles, calls, window, settled>>

\* postToPlatform resolves with success: the router issues the UPDATE that
\* records it
PublishTransportSucceeds ==
    /\ api.op = "publish"
    /\ api.pc = "transport"
    /\ \E r \in PublishResults(api.post) :
          api' = [op |-> "publish", pc |-> "update_posted", id |-> api.id,
                  postedAt |-> api.postedAt, tweetId |-> r.tweetId,
                  threadIds |-> r.threadIds]
    /\ UNCHANGED <<now, posts, accounts, SCHEDULER_ENABLED, schedulerTask, cronTasks,
                   cycles, calls, faults, window, settled>>

\* postToPlatform resolves with failure: the router issues the UPDATE that
\* records the message
PublishTransportFails ==
    /\ api.op = "publish"
    /\ api.pc = "transport"
    /\ api' = [op |-> "publish", pc |-> "update_failed", id |-> api.id,
               msg |-> "transport error"]
    /\ UNCHANGED <<now, posts, accounts, SCHEDULER_ENABLED, schedulerTask, cronTasks,
                   cycles, calls, faults, window, settled>>

\* UPDATE posts SET status = 'failed', error_message = $1 WHERE id = $2
PublishFailedRow(post, errorMessage) ==
    [post EXCEPT !.status = "failed", !.error_message = errorMessage]

\* the manual publish whose UPDATE of a success leaves error_message as it is
PublishPostedRow_KeepsError(post, postedAt, tweetId, threadIds) ==
    [post EXCEPT !.status = "posted",
                 !.posted_at = postedAt,
                 !.platform_post_id = tweetId,
                 !.platform_thread_ids = threadIds]

\* UPDATE posts SET status = 'posted', posted_at = $1, platform_post_id = $2,
\* platform_thread_ids = $3, error_message = NULL WHERE id = $4
PublishPostedRow(post, postedAt, tweetId, threadIds) ==
    [post EXCEPT !.status = "posted",
                 !.posted_at = postedAt,
                 !.platform_post_id = tweetId,
                 !.platform_thread_ids = threadIds,
                 !.error_message = NULLSTR]

\* the UPDATE of the router that records the result of the transport resolves,
\* or rejects and is handled by the catch block
PublishUpdate ==
    /\ api.op = "publish"
    /\ api.pc \in {"update_posted", "update_failed"}
    /\ \E ok \in QueryOutcomes :
          /\ faults' = IF ok THEN faults ELSE faults + 1
          /\ posts' = IF ~ok THEN posts
                      ELSE IF api.pc = "update_posted"
                        THEN [posts EXCEPT ![api.id] =
                                PublishPostedRow(@, api.postedAt, api.tweetId,
                                                 api.threadIds)]
                      ELSE [posts EXCEPT ![api.id] = PublishFailedRow(@, api.msg)]
          /\ api' = IF ok THEN IdleApi
                    ELSE [op |-> "publish", pc |-> "catch", id |-> api.id,
                          msg |-> "store error"]
    /\ window' = NULL
    /\ settled' = {}
    /\ UNCHANGED <<now, accounts, SCHEDULER_ENABLED, schedulerTask, cronTasks, cycles,
                   calls>>

\* the catch block of the manual publish: UPDATE ... status = 'failed' for the
\* id of the request, in its own try/catch
PublishCatch ==
    /\ api.op = "publish"
    /\ api.pc = "catch"
    /\ \E ok \in QueryOutcomes :
          /\ faults' = IF ok THEN faults ELSE faults + 1
          /\ posts' = IF ok THEN [posts EXCEPT ![api.id] = PublishFailedRow(@, api.msg)]
                      ELSE posts
    /\ api' = IdleApi
    /\ window' = NULL
    /\ settled' = {}
    /\ UNCHANGED <<now, accounts, SCHEDULER_ENABLED, schedulerTask, cronTasks, cycles,
                   calls>>

\* the bodies clients send to PATCH /api/posts/:id: scheduledAt as days from
\* now (NULL when absent) and repeat ("absent", or "off" for null/false)
PatchRequests ==
    { [scheduledAt |-> 1,    repeat |-> "absent"],
      [scheduledAt |-> 0,    repeat |-> "absent"],
      [scheduledAt |-> NULL, repeat |-> "off"],
      [scheduledAt |-> NULL, repeat |-> "absent"] }

\* PATCH /api/posts/:id up to its UPDATE: the post is read and the SET list is
\* built from the body and from the status that was read; the request is
\* refused for a scheduledAt that is not in the future and for an empty list
PatchSelect(p) ==
    /\ api.pc = "idle"
    /\ p \in PostIds
    /\ \E req \in PatchRequests, ok \in QueryOutcomes :
          LET scheduledDate == IF req.scheduledAt = NULL THEN NULL
                               ELSE now + req.scheduledAt
          IN  /\ faults' = IF ok THEN faults ELSE faults + 1
              /\ api' = IF ~ok THEN IdleApi
                        ELSE IF scheduledDate # NULL /\ scheduledDate <= now THEN IdleApi
                        ELSE IF scheduledDate = NULL /\ req.repeat = "absent" THEN IdleApi
                        ELSE [op |-> "patch", pc |-> "update", id |-> p,
                              scheduled_at |-> scheduledDate,
                              status |-> IF scheduledDate # NULL
                                            /\ posts[p].status # "posted"
                                           THEN "scheduled" ELSE NULLSTR,
                              repeat |-> req.repeat]
    /\ UNCHANGED <<now, posts, accounts, SCHEDULER_ENABLED, schedulerTask, cronTasks,
                   cycles, calls, window, settled>>

\* UPDATE posts SET <the list that was built> WHERE id = $n
PatchedRow(post, set) ==
    [post EXCEPT !.scheduled_at = IF set.scheduled_at # NULL THEN set.scheduled_at ELSE @,
                 !.status = IF set.status # NULLSTR THEN set.status ELSE @,
                 !.repeat_enabled = IF set.repeat = "off" THEN FALSE ELSE @,
                 !.repeat_frequency = IF set.repeat = "off" THEN NULLSTR ELSE @,
                 !.repeat_until = IF set.repeat = "off" THEN NULL ELSE @,
                 !.repeat_count = IF set.repeat = "off" THEN NULL ELSE @]

\* the UPDATE of PATCH resolves, or rejects (answered with status 500)
PatchUpdate ==
    /\ api.op = "patch"
    /\ api.pc = "update"
    /\ \E ok \in QueryOutcomes :
          /\ faults' = IF ok THEN faults ELSE faults + 1
          /\ posts' = IF ok THEN [posts EXCEPT ![api.id] = PatchedRow(@, api)]
                      ELSE posts
    /\ api' = IdleApi
    /\ window' = NULL
    /\ settled' = {}
    /\ UNCHANGED <<now, accounts, SCHEDULER_ENABLED, schedulerTask, cronTasks, cycles,
                   calls>>

----------------------------------------------------------------------------
(* The scheduler loop *)

\* startScheduler without the test of schedulerTask
StartScheduler_NoRunningTest ==
    IF ~SCHEDULER_ENABLED THEN UNCHANGED vars
    ELSE /\ BeginCycle
         /\ schedulerTask' = TRUE
         /\ cronTasks' = cronTasks + 1

\* startScheduler without the immediate call of processScheduledPosts
StartScheduler_TimerOnly ==
    IF ~SCHEDULER_ENABLED THEN UNCHANGED vars
    ELSE IF schedulerTask THEN UNCHANGED vars
    ELSE /\ schedulerTask' = TRUE
         /\ cronTasks' = cronTasks + 1
         /\ UNCHANGED <<now, posts, accounts, api, SCHEDULER_ENABLED, cycles, calls, faults,
                        window, settled>>

\* startScheduler that runs the immediate cycle and schedules no cron task
StartScheduler_NoCronTask ==
    IF ~SCHEDULER_ENABLED THEN UNCHANGED vars
    ELSE IF schedulerTask THEN UNCHANGED vars
    ELSE /\ BeginCycle
         /\ schedulerTask' = TRUE
         /\ UNCHANGED cronTasks

\* startScheduler: returns at once when the scheduler is disabled or already
\* running; else calls processScheduledPosts (not awaited), then schedules the
\* cron task
StartScheduler ==
    IF ~SCHEDULER_ENABLED THEN UNCHANGED vars
    ELSE IF schedulerTask THEN UNCHANGED vars
    ELSE /\ BeginCycle
         /\ schedulerTask' = TRUE
         /\ cronTasks' = cronTasks + 1

\* stopScheduler that forgets the cron task without stopping it
StopScheduler_KeepsTask ==
    IF schedulerTask
      THEN /\ schedulerTask' = FALSE
           /\ UNCHANGED <<now, posts, accounts, api, SCHEDULER_ENABLED, cronTasks, cycles,
                          calls, faults, window, settled>>
      ELSE UNCHANGED vars

\* stopScheduler: stops the cron task the module holds, if any
StopScheduler ==
    IF schedulerTask
      THEN /\ cronTasks' = cronTasks - 1
           /\ schedulerTask' = FALSE
           /\ UNCHANGED <<now, posts, accounts, api, SCHEDULER_ENABLED, cycles, calls, faults,
                          window, settled>>
      ELSE UNCHANGED vars

\* a scheduled cron task fires its callback
TimerTick ==
    /\ cronTasks > 0
    /\ BeginCycle
    /\ UNCHANGED <<schedulerTask, cronTasks>>

Next ==
    \/ CreatePost
    \/ AdvanceClock
    \/ StartScheduler
    \/ StopScheduler
    \/ TimerTick
    \/ \E c \in CycleIds : SelectDone(c)
    \/ \E c \in CycleIds : TransportSucceeds(c)
    \/ \E c \in CycleIds : TransportFails(c)
    \/ \E c \in CycleIds : UpdatePosted(c)
    \/ \E c \in CycleIds : InsertNext(c)
    \/ \E c \in CycleIds : MarkFailed(c)

Spec == Init /\ [][Next]_vars

----------------------------------------------------------------------------
(* The scheduler starts on a backlog: posts that became due while the process
   was down, more of them than one batch takes *)

BacklogSizes == {BATCH_SIZE - 1, BATCH_SIZE, BATCH_SIZE + 1, BATCH_SIZE + 2}

BacklogOrders == {"ascending", "descending", "mixed"}

\* the posts were created with these due times when they were in the future
BacklogDue(order, i, n, t) ==
    IF order = "ascending" THEN t - (n - i)
    ELSE IF order = "descending" THEN t - i
    ELSE t + 2 - ((i * 5) % 13)

BacklogAccount(i) == IF i % 5 = 0 THEN 3 ELSE IF i % 7 = 0 THEN 4 ELSE 1

InitBacklog ==
    /\ now \in StartDays
    /\ \E n \in BacklogSizes, order \in BacklogOrders :
          posts = [i \in 1..n |->
                     NewPost(BacklogAccount(i), BacklogDue(order, i, n, now), NoRepeat)]
    /\ accounts = AccountTable
    /\ api = IdleApi
    /\ SCHEDULER_ENABLED = TRUE
    /\ schedulerTask = FALSE
    /\ cronTasks = 0
    /\ cycles = [c \in CycleIds |-> IdleCycle]
    /\ calls = [p \in 1..Len(posts) |-> 0]
    /\ faults = 0
    /\ window = NULL
    /\ settled = {}

NextBacklog ==
    \/ StartScheduler
    \/ TimerTick
    \/ \E c \in CycleIds : SelectDone(c)
    \/ \E c \in CycleIds : TransportSucceeds(c)
    \/ \E c \in CycleIds : UpdatePosted(c)
    \/ \E c \in CycleIds : MarkFailed(c)

SpecBacklog == InitBacklog /\ [][NextBacklog]_vars

----------------------------------------------------------------------------
(* The scheduler runs on a stored recurring series: a root post that is due,
   with or without an end time and a count limit *)

\* repeat_until of the root, as a distance in days from its scheduled_at; the
\* API stores the date of the request without comparing it to scheduledAt
SeriesUntilOffsets == {NULL, 0, 1, 6, 7, 30, 31}

SeriesCounts == {NULL, 1, 2, 3}

\* the root posts of the series: every end time and count limit on a valid
\* account, and an unlimited daily series on each account that fails validation
SeriesRoots(t) ==
    { NewPost(1, t, [frequency |-> f,
                     until |-> IF u = NULL THEN NULL ELSE t + u,
                     count |-> n]) :
        f \in Frequencies, u \in SeriesUntilOffsets, n \in SeriesCounts }
    \cup { NewPost(a, t, Repeat("daily", NULL)) : a \in {2, 3} }

InitSeries ==
    /\ now \in StartDays
    /\ \E root \in SeriesRoots(now) : posts = <<root>>
    /\ accounts = AccountTable
    /\ api = IdleApi
    /\ SCHEDULER_ENABLED \in BOOLEAN
    /\ schedulerTask = FALSE
    /\ cronTasks = 0
    /\ cycles = [c \in CycleIds |-> IdleCycle]
    /\ calls = [p \in 1..MaxPosts |-> 0]
    /\ faults = 0
    /\ window = NULL
    /\ settled = {}

NextSeries ==
    \/ AdvanceClock
    \/ StartScheduler
    \/ StopScheduler
    \/ TimerTick
    \/ \E c \in CycleIds : SelectDone(c)
    \/ \E c \in CycleIds : TransportSucceeds(c)
    \/ \E c \in CycleIds : TransportFails(c)
    \/ \E c \in CycleIds : UpdatePosted(c)
    \/ \E c \in CycleIds : InsertNext(c)
    \/ \E c \in CycleIds : MarkFailed(c)

SpecSeries == InitSeries /\ [][NextSeries]_vars

----------------------------------------------------------------------------
(* The scheduler runs on a batch of due posts of valid and invalid accounts,
   and every awaited call (store query, transport call) eventually settles *)

BatchLen == 3

\* accounts of the posts of the batch: valid, unsupported platform, no token
BatchAccounts == {1, 2, 3}

InitBatch ==
    /\ now \in StartDays
    /\ \E owner \in [1..BatchLen -> BatchAccounts] :
          posts = [i \in 1..BatchLen |-> NewPost(owner[i], now - i, NoRepeat)]
    /\ accounts = AccountTable
    /\ api = IdleApi
    /\ SCHEDULER_ENABLED = TRUE
    /\ schedulerTask = FALSE
    /\ cronTasks = 0
    /\ cycles = [c \in CycleIds |-> IdleCycle]
    /\ calls = [p \in 1..Len(posts) |-> 0]
    /\ faults = 0
    /\ window = NULL
    /\ settled = {}

NextBatch ==
    \/ StartScheduler
    \/ TimerTick
    \/ \E c \in CycleIds : SelectDone(c)
    \/ \E c \in CycleIds : TransportSucceeds(c)
    \/ \E c \in CycleIds : TransportFails(c)
    \/ \E c \in CycleIds : UpdatePosted(c)
    \/ \E c \in CycleIds : MarkFailed(c)

\* the event loop resumes an execution when the call it awaits has settled
BatchFairness ==
    \A c \in CycleIds :
        /\ WF_vars(SelectDone(c))
        /\ WF_vars(TransportSucceeds(c) \/ TransportFails(c))
        /\ WF_vars(UpdatePosted(c))
        /\ WF_vars(MarkFailed(c))

SpecBatch == InitBatch /\ [][NextBatch]_vars /\ BatchFairness

----------------------------------------------------------------------------
(* The scheduler runs on a due post of mode 'thread' *)

InitThread ==
    /\ now \in StartDays
    /\ \E th \in Threads :
          posts = << [NewPost(1, now, NoRepeat) EXCEPT !.mode = "thread", !.thread = th] >>
    /\ accounts = AccountTable
    /\ api = IdleApi
    /\ SCHEDULER_ENABLED = TRUE
    /\ schedulerTask = FALSE
    /\ cronTasks = 0
    /\ cycles = [c \in CycleIds |-> IdleCycle]
    /\ calls = [p \in 1..Len(posts) |-> 0]
    /\ faults = 0
    /\ window = NULL
    /\ settled = {}

NextThread ==
    \/ StartScheduler
    \/ TimerTick
    \/ \E c \in CycleIds : SelectDone(c)
    \/ \E c \in CycleIds : ThreadRejected(c)
    \/ \E c \in CycleIds : ThreadSegmentPosted(c)
    \/ \E c \in CycleIds : ThreadSegmentFails(c)
    \/ \E c \in CycleIds : UpdatePosted(c)
    \/ \E c \in CycleIds : MarkFailed(c)

SpecThread == InitThread /\ [][NextThread]_vars

----------------------------------------------------------------------------
(* Clients use the API while the scheduler runs: they publish a stored post
   manually and PATCH it *)

\* the post a client has created: the last post of a daily series, which became
\* due while the process was down, a post that is due now, a draft, and a due
\* post of an account of an unsupported platform
ApiRoots(t) ==
    { NewPost(1, t - 2, Repeat("daily", 1)),
      NewPost(1, t, NoRepeat),
      NewPost(1, NULL, NoRepeat),
      NewPost(2, t, NoRepeat) }

InitApi ==
    /\ now \in StartDays
    /\ \E root \in ApiRoots(now) : posts = <<root>>
    /\ accounts = AccountTable
    /\ api = IdleApi
    /\ SCHEDULER_ENABLED = TRUE
    /\ schedulerTask = FALSE
    /\ cronTasks = 0
    /\ cycles = [c \in CycleIds |-> IdleCycle]
    /\ calls = [p \in 1..Len(posts) |-> 0]
    /\ faults = 0
    /\ window = NULL
    /\ settled = {}

NextApi ==
    \/ StartScheduler
    \/ TimerTick
    \/ \E c \in CycleIds : SelectDone(c)
    \/ \E c \in CycleIds : TransportSucceeds(c)
    \/ \E c \in CycleIds : TransportFails(c)
    \/ \E c \in CycleIds : UpdatePosted(c)
    \/ \E c \in CycleIds : MarkFailed(c)
    \/ \E p \in PostIds : PublishSelect(p)
    \/ PublishTransportSucceeds
    \/ PublishTransportFails
    \/ PublishUpdate
    \/ PublishCatch
    \/ \E p \in PostIds : PatchSelect(p)
    \/ PatchUpdate

SpecApi == InitApi /\ [][NextApi]_vars

----------------------------------------------------------------------------
(* Clients use the API during the cycle the scheduler runs when it starts, on
   a store with two due posts: no other cycle runs *)

InitRace ==
    /\ now \in StartDays
    /\ posts = << NewPost(1, now - 1, NoRepeat), NewPost(1, now, NoRepeat) >>
    /\ accounts = AccountTable
    /\ api = IdleApi
    /\ SCHEDULER_ENABLED = TRUE
    /\ schedulerTask = FALSE
    /\ cronTasks = 0
    /\ cycles = [c \in CycleIds |-> IdleCycle]
    /\ calls = [p \in 1..Len(posts) |-> 0]
    /\ faults = 0
    /\ window = NULL
    /\ settled = {}

NextRace ==
    \/ StartScheduler
    \/ \E c \in CycleIds : SelectDone(c)
    \/ \E c \in CycleIds : TransportSucceeds(c)
    \/ \E c \in CycleIds : TransportFails(c)
    \/ \E c \in CycleIds : UpdatePosted(c)
    \/ \E c \in CycleIds : MarkFailed(c)
    \/ \E p \in PostIds : PublishSelect(p)
    \/ PublishTransportSucceeds
    \/ PublishTransportFails
    \/ PublishUpdate
    \/ PublishCatch
    \/ \E p \in PostIds : PatchSelect(p)
    \/ PatchUpdate

SpecRace == InitRace /\ [][NextRace]_vars

----------------------------------------------------------------------------
(* The scheduler runs on an unlimited daily series with room in the store for
   the root and one next occurrence for each cycle in flight *)

InitOverlap ==
    /\ now \in StartDays
    /\ \E a \in BatchAccounts : posts = << NewPost(a, now, Repeat("daily", NULL)) >>
    /\ accounts = AccountTable
    /\ api = IdleApi
    /\ SCHEDULER_ENABLED = TRUE
    /\ schedulerTask = FALSE
    /\ cronTasks = 0
    /\ cycles = [c \in CycleIds |-> IdleCycle]
    /\ calls = [p \in 1..(1 + MaxCycles) |-> 0]
    /\ faults = 0
    /\ window = NULL
    /\ settled = {}

NextOverlap ==
    \/ StartScheduler
    \/ TimerTick
    \/ \E c \in CycleIds : SelectDone(c)
    \/ \E c \in CycleIds : TransportSucceeds(c)
    \/ \E c \in CycleIds : TransportFails(c)
    \/ \E c \in CycleIds : UpdatePosted(c)
    \/ \E c \in CycleIds : InsertNext(c)
    \/ \E c \in CycleIds : MarkFailed(c)

SpecOverlap == InitOverlap /\ [][NextOverlap]_vars

----------------------------------------------------------------------------
(* The scheduler starts on a backlog of more than BATCH_SIZE due posts, the
   cron task keeps firing and every awaited call eventually settles *)

\* the accounts of the posts of the backlog: the newest post is of a valid
\* account, one post of a deactivated account, the other ones of accounts that
\* fail validation
LiveAccount(i) ==
    IF i = 1 THEN 1 ELSE IF i % 7 = 0 THEN 4 ELSE IF i % 2 = 0 THEN 2 ELSE 3

InitLive ==
    /\ now \in StartDays
    /\ \E n \in {BATCH_SIZE + 2} :
          posts = [i \in 1..n |->
                     NewPost(LiveAccount(i), BacklogDue("descending", i, n, now), NoRepeat)]
    /\ accounts = AccountTable
    /\ api = IdleApi
    /\ SCHEDULER_ENABLED = TRUE
    /\ schedulerTask = FALSE
    /\ cronTasks = 0
    /\ cycles = [c \in CycleIds |-> IdleCycle]
    /\ calls = [p \in 1..Len(posts) |-> 0]
    /\ faults = 0
    /\ window = NULL
    /\ settled = {}

NextLive ==
    \/ StartScheduler
    \/ TimerTick
    \/ \E c \in CycleIds : SelectDone(c)
    \/ \E c \in CycleIds : TransportSucceeds(c)
    \/ \E c \in CycleIds : TransportFails(c)
    \/ \E c \in CycleIds : UpdatePosted(c)
    \/ \E c \in CycleIds : MarkFailed(c)

\* the server calls startScheduler when it starts, node-cron fires the
\* callback of a scheduled task every minute, and the event loop resumes an
\* execution when the call it awaits has settled
LiveFairness ==
    /\ WF_vars(StartScheduler)
    /\ WF_vars(TimerTick)
    /\ BatchFairness

SpecLive == InitLive /\ [][NextLive]_vars /\ LiveFairness

TypeOK ==
    /\ now \in Int
    /\ schedulerTask \in BOOLEAN
    /\ \A c \in CycleIds : cycles[c].pc \in
          {"idle", "select", "transport", "update_posted", "insert_next", "mark_failed"}
    /\ \A i \in PostIds : posts[i].status \in {"draft", "scheduled", "posted", "failed"}

----------------------------------------------------------------------------
(* Vocabulary of the properties *)

\* the step in which the store query awaited by cycle c resolves (no rejection)
QueryResolves(c) == cycles'[c] # cycles[c] /\ faults' = faults

\* the step in which processPost of cycle c returns
Finishes(c) ==
    /\ cycles[c].pc \in {"update_posted", "insert_next", "mark_failed"}
    /\ cycles'[c] # cycles[c]
    /\ cycles'[c].pc = "idle" \/ cycles'[c].idx = cycles[c].idx + 1

IsPosted(post) ==
    /\ post.status = "posted"
    /\ post.posted_at # NULL
    /\ post.platform_post_id # NULL
    /\ post.error_message = NULLSTR

ValidationFails(row) == row.platform # "x" \/ row.access_token = NULLSTR

ValidationMessages == {"Platform not yet supported", "No access token found"}

----------------------------------------------------------------------------
(* C1: provided every store write has succeeded, the cycles of the scheduler
   invoke postToPlatform at most once for a post. *)
C1_NoDoublePublish ==
    faults = 0 => \A p \in DOMAIN calls : calls[p] <= 1

(* C2: a timer tick starts an execution of processScheduledPosts only when no
   execution started by the scheduler is still running: cycles never overlap. *)
C2_NoOverlap == [][TimerTick => InFlight = {}]_vars

(* C3: when processPost returns for a post whose transport call reported
   success, the stored post is 'posted' with posted_at and platform_post_id
   set and error_message null (stated for the runs in which no store query has
   failed). *)
C3_PostedAtReturn ==
    [][\A c \in CycleIds :
         (Finishes(c) /\ cycles[c].tr = "success" /\ faults' = 0)
           => IsPosted(posts'[RowOf(c).id])]_vars

(* C4: when processPost returns for a post whose transport call reported
   failure, the stored post is 'failed' with an error_message and a null
   platform_post_id (stated for the runs in which no store query has failed). *)
C4_FailedAtReturn ==
    [][\A c \in CycleIds :
         (Finishes(c) /\ cycles[c].tr = "failure" /\ faults' = 0)
           => /\ posts'[RowOf(c).id].status = "failed"
              /\ posts'[RowOf(c).id].error_message # NULLSTR
              /\ posts'[RowOf(c).id].platform_post_id = NULL]_vars

(* C5 as stated: a selected post whose account platform is not 'x' or whose
   access token is missing ends processPost 'failed' with a descriptive
   message, and postToPlatform is never invoked for it. *)
C5_InvalidEndsFailed ==
    [][\A c \in CycleIds :
         (Finishes(c) /\ ValidationFails(RowOf(c)))
           => /\ posts'[RowOf(c).id].status = "failed"
              /\ posts'[RowOf(c).id].error_message \in ValidationMessages
              /\ calls'[RowOf(c).id] = 0]_vars

(* C5 amended: for a selected post whose account platform is not 'x' or whose
   access token is missing, processPost never invokes postToPlatform and calls
   markPostAsFailed with a descriptive message; the post becomes 'failed' with
   that message when the UPDATE of markPostAsFailed succeeds. *)
C5_InvalidNeverPublished ==
    [][\A c \in CycleIds :
         /\ cycles'[c].pc = "transport" => ~ValidationFails(CurrentRow(cycles'[c]))
         /\ (cycles'[c].pc # "idle" /\ cycles'[c].pc # "select"
                /\ ValidationFails(CurrentRow(cycles'[c])))
               => /\ cycles'[c].pc = "mark_failed"
                  /\ cycles'[c].msg \in ValidationMessages
                  /\ calls'[CurrentRow(cycles'[c]).id] = 0
         /\ (cycles[c].pc = "mark_failed" /\ ValidationFails(RowOf(c)) /\ QueryResolves(c))
               => /\ posts'[RowOf(c).id].status = "failed"
                  /\ posts'[RowOf(c).id].error_message \in ValidationMessages]_vars

\* a post was marked failed by the validation, without a transport call
C5_Witness ==
    \E p \in PostIds :
        /\ ValidationFails(SelectedRow(posts, accounts, p))
        /\ posts[p].status = "failed"
        /\ posts[p].error_message \in ValidationMessages
        /\ calls[p] = 0

(* C6: the rows a cycle selects are, in the store at the time of the SELECT,
   all 'scheduled', due (scheduled_at <= now) and owned by an active account. *)
C6_SelectedAreDue ==
    [][\A c \in CycleIds :
         (cycles[c].pc = "select" /\ cycles'[c] # cycles[c])
           => \A k \in 1..Len(cycles'[c].batch) :
                LET p == cycles'[c].batch[k].id
                IN  /\ p \in PostIds
                    /\ posts[p].status = "scheduled"
                    /\ posts[p].scheduled_at # NULL
                    /\ posts[p].scheduled_at <= now
                    /\ accounts[posts[p].account_id].is_active]_vars

BatchIds(cy) == { cy.batch[k].id : k \in 1..Len(cy.batch) }

\* a cycle has just selected a batch that leaves out a due, 'scheduled' post of
\* an inactive account
C6_Witness ==
    \E c \in CycleIds :
        /\ cycles[c].batch # << >>
        /\ cycles[c].idx = 1
        /\ \E p \in PostIds \ BatchIds(cycles[c]) :
              /\ posts[p].status = "scheduled"
              /\ posts[p].scheduled_at <= cycles[c].batch[1].scheduled_at
              /\ ~accounts[posts[p].account_id].is_active

(* C7: a selected batch has at most BATCH_SIZE rows in ascending order of
   scheduled_at, and a cycle processes them one at a time in that order: it
   starts on row 1, moves from a row to the next one only, and only when the
   store write that ends the processing of the row has come back. *)
C7_BatchCappedOrderedSequential ==
    [][\A c \in CycleIds :
         LET old == cycles[c]
             new == cycles'[c]
         IN  /\ Len(new.batch) <= BATCH_SIZE
             /\ \A k \in 1..(Len(new.batch) - 1) :
                   new.batch[k].scheduled_at <= new.batch[k + 1].scheduled_at
             /\ (old.pc = "select" /\ new.batch # << >>) => new.idx = 1
             /\ (old.batch # << >> /\ new.batch # << >>)
                   => /\ new.batch = old.batch
                      /\ new.idx \in {old.idx, old.idx + 1}
                      /\ new.idx = old.idx + 1
                            => old.pc \in {"update_posted", "insert_next", "mark_failed"}
             /\ new.pc = "transport" => calls'[CurrentRow(new).id] >= 1]_vars

\* a cycle is on the last row of a full batch, whose order is not the order of
\* the ids, while a due post waits for the next cycle
C7_Witness ==
    \E c \in CycleIds :
        /\ Len(cycles[c].batch) = BATCH_SIZE
        /\ cycles[c].idx = BATCH_SIZE
        /\ \E k \in 1..(BATCH_SIZE - 1) :
              cycles[c].batch[k].scheduled_at < cycles[c].batch[k + 1].scheduled_at
        /\ \E k \in 1..(BATCH_SIZE - 1) : cycles[c].batch[k].id > cycles[c].batch[k + 1].id
        /\ DuePosts(posts, accounts, now) \ BatchIds(cycles[c]) # {}

(* C8 as stated: a cycle that runs right after another one has completed, with
   no time passing and no post created in between, selects no post (stated
   for the runs in which no store query has failed). *)
C8_SecondCallSelectsNothing ==
    (window = 1 /\ faults = 0) => \A c \in CycleIds : cycles[c].batch = << >>

(* C8 amended: a cycle that runs right after another one has completed, with
   no time passing and no post created in between, selects none of the posts
   whose outcome the first cycle recorded; it does select the due posts that
   the first cycle's batch of BATCH_SIZE left out (and posts whose status
   write failed, and successors the first cycle spawned that are already due). *)
C8_SecondCallSkipsSettled ==
    window = 1 => \A c \in CycleIds : BatchIds(cycles[c]) \cap settled = {}

\* the second cycle has selected a batch after the first recorded outcomes
C8_Witness ==
    /\ window = 1
    /\ settled # {}
    /\ \E c \in CycleIds : cycles[c].batch # << >>

\* a recurring row with no end time and no count limit
UnlimitedRecurring(row) ==
    /\ row.repeat_enabled
    /\ row.repeat_frequency \in Frequencies
    /\ row.repeat_until = NULL
    /\ ~Truthy(row.repeat_count)

Min(a, b) == IF a <= b THEN a ELSE b

\* day d plus one unit of the frequency; for a month: the same day of the
\* following calendar month, or its last day when it has no such day
OneUnitLater(frequency, d) ==
    IF frequency = "daily" THEN d + 1
    ELSE IF frequency = "weekly" THEN d + 7
    ELSE LET month == (getMonth(d) + 1) % 12
             year  == getFullYear(d) + (IF getMonth(d) = 11 THEN 1 ELSE 0)
         IN  MakeDay(year, month, Min(getDate(d), DaysInMonth(year, month)))

\* post n is the next occurrence the claim describes for the selected row
IsSuccessorOf(row, n) ==
    /\ n.status = "scheduled"
    /\ n.scheduled_at = OneUnitLater(row.repeat_frequency, row.scheduled_at)
    /\ n.repeat_occurrence = row.repeat_occurrence + 1
    /\ n.repeat_parent_id =
         (IF row.repeat_parent_id # NULL THEN row.repeat_parent_id ELSE row.id)

(* C9: a successful publish of a recurring post with no end time and no count
   limit creates exactly one new post: 'scheduled', due one frequency unit
   after the original, with the next occurrence index and the parent reference
   of the series (the post is created when the INSERT succeeds). *)
C9_SuccessorOneUnitLater ==
    [][\A c \in CycleIds :
         /\ (/\ cycles[c].pc = "update_posted"
             /\ QueryResolves(c)
             /\ UnlimitedRecurring(RowOf(c)))
               => /\ cycles'[c].pc = "insert_next"
                  /\ IsSuccessorOf(RowOf(c), cycles'[c].next[1])
                  /\ Len(posts') = Len(posts)
         /\ (cycles[c].pc = "insert_next" /\ QueryResolves(c))
               => posts' = Append(posts, cycles[c].next[1])]_vars

(* C10: the successful publish of a post whose occurrence index has reached
   its repeat_count issues no INSERT of a further occurrence, so no post of the
   store has an occurrence index above its repeat_count. *)
C10_CountStopsSeries ==
    [][/\ \A c \in CycleIds :
            (/\ cycles[c].pc = "update_posted"
             /\ cycles'[c] # cycles[c]
             /\ Truthy(RowOf(c).repeat_count)
             /\ RowOf(c).repeat_occurrence >= RowOf(c).repeat_count)
              => cycles'[c].pc # "insert_next"
       /\ \A c \in CycleIds :
            (cycles'[c].pc = "insert_next" /\ Truthy(cycles'[c].next[1].repeat_count))
              => cycles'[c].next[1].repeat_occurrence <= cycles'[c].next[1].repeat_count
       /\ \A p \in 1..Len(posts') :
            Truthy(posts'[p].repeat_count)
              => posts'[p].repeat_occurrence <= posts'[p].repeat_count]_vars

\* the post with occurrence index 2 of a series with repeat_count 2 is published
C10_Witness ==
    \E p \in PostIds :
        /\ posts[p].repeat_count = 2
        /\ posts[p].repeat_occurrence = 2
        /\ IsPosted(posts[p])

(* C11: the successful publish of a recurring post whose repeat_until is
   earlier than the computed next due time issues no INSERT of a successor,
   whatever its repeat_count; so no successor the scheduler prepares or stores
   has a scheduled_at later than its repeat_until. *)
C11_UntilStopsSeries ==
    [][/\ \A c \in CycleIds :
            (/\ cycles[c].pc = "update_posted"
             /\ cycles'[c] # cycles[c]
             /\ RowOf(c).repeat_until # NULL
             /\ NextScheduled(RowOf(c), now) > RowOf(c).repeat_until)
              => cycles'[c].pc # "insert_next"
       /\ \A c \in CycleIds :
            (cycles'[c].pc = "insert_next" /\ cycles'[c].next[1].repeat_until # NULL)
              => cycles'[c].next[1].scheduled_at <= cycles'[c].next[1].repeat_until
       /\ \A p \in 1..Len(posts') :
            (posts'[p].repeat_parent_id # NULL /\ posts'[p].repeat_until # NULL)
              => posts'[p].scheduled_at <= posts'[p].repeat_until]_vars

\* a root whose count limit allows a successor is published before its end
\* time, its next due time is past the end time, and no successor was stored
C11_Witness ==
    /\ InFlight = {}
    /\ Len(posts) = 1
    /\ IsPosted(posts[1])
    /\ posts[1].repeat_count = 3
    /\ posts[1].repeat_until # NULL
    /\ posts[1].repeat_until >= posts[1].posted_at
    /\ NextScheduled(SelectedRow(posts, accounts, 1), now) > posts[1].repeat_until

(* C12: createNextRecurringPost issues its INSERT only after a transport
   success whose UPDATE was stored: a cycle that ends a post through
   markPostAsFailed (validation failure, transport failure, exception) inserts
   nothing, and a post is added to the store by the scheduler only for a cycle
   whose transport call succeeded. *)
C12_NoSuccessorAfterFailure ==
    [][/\ \A c \in CycleIds :
            (cycles'[c].pc = "insert_next" /\ cycles'[c] # cycles[c])
              => /\ cycles[c].pc = "update_posted"
                 /\ cycles[c].tr = "success"
                 /\ QueryResolves(c)
       /\ \A c \in CycleIds :
            (cycles[c].pc = "mark_failed" /\ cycles'[c] # cycles[c])
              => /\ Len(posts') = Len(posts)
                 /\ cycles'[c].next = << >>
       /\ Len(posts') # Len(posts)
            => \E c \in CycleIds :
                  /\ cycles[c].pc = "insert_next"
                  /\ cycles[c].tr = "success"
                  /\ posts' = Append(posts, cycles[c].next[1])]_vars

\* the publish attempt of a recurring post has ended in failure after a
\* transport call, the cycle is over and the store holds no successor
C12_Witness ==
    /\ InFlight = {}
    /\ Len(posts) = 1
    /\ posts[1].repeat_enabled
    /\ posts[1].status = "failed"
    /\ calls[1] >= 1

(* C13: whatever ends the processing of a post (validation failure, transport
   failure, rejected store write), the cycle goes on with the next row of its
   batch: a cycle with a batch ends only after the last row, and, every awaited
   call settling, a cycle that has started always completes. *)
C13_FailuresDoNotStopBatch ==
    /\ [][\A c \in CycleIds :
             (cycles[c].batch # << >> /\ cycles'[c] # cycles[c])
               => /\ cycles'[c].pc = "idle" => cycles[c].idx = Len(cycles[c].batch)
                  /\ cycles'[c].pc # "idle"
                        => /\ cycles'[c].batch = cycles[c].batch
                           /\ cycles'[c].idx \in {cycles[c].idx, cycles[c].idx + 1}]_vars
    /\ \A c \in CycleIds : (cycles[c].pc # "idle") ~> (cycles[c].pc = "idle")

\* a cycle is on the last row of its batch after a validation failure, and a
\* rejected store write has left an earlier row of the batch 'scheduled'
C13_Witness ==
    \E c \in CycleIds :
        /\ cycles[c].batch # << >>
        /\ cycles[c].idx = Len(cycles[c].batch)
        /\ faults = 1
        /\ \E k \in 1..(cycles[c].idx - 1) :
              posts[cycles[c].batch[k].id].status = "scheduled"
        /\ \E k \in 1..(cycles[c].idx - 1) :
              /\ ValidationFails(cycles[c].batch[k])
              /\ posts[cycles[c].batch[k].id].status = "failed"

(* C14: no cycle invokes postToPlatform for a post whose stored status is
   'failed' (stated for the runs in which no store query has failed; no
   external actor resets a status in these runs). *)
C14_FailedNeverRetried ==
    [][\A c \in CycleIds :
         (cycles'[c].pc = "transport" /\ cycles'[c] # cycles[c] /\ faults' = 0)
           => posts'[CurrentRow(cycles'[c]).id].status # "failed"]_vars

(* C15 as stated: when the store write that records the outcome of a transport
   call has failed, the post is still 'scheduled' when processPost returns
   (here for the UPDATE of a transport success). *)
C15_StaysScheduledAfterFailedWrite ==
    [][\A c \in CycleIds :
         (Finishes(c) /\ cycles[c].tr = "success" /\ cycles[c].msg = "store error")
           => posts'[RowOf(c).id].status = "scheduled"]_vars

(* C15 amended: a rejected UPDATE of markPostAsFailed is logged and leaves the
   post as stored, and the SELECT of a later cycle returns every post that is
   still 'scheduled', due and on an active account (up to BATCH_SIZE of them);
   a rejected UPDATE of a transport success leaves the post as stored and makes
   processPost call markPostAsFailed with the store error, so the published
   post becomes 'failed' when that write succeeds. *)
C15_FailedWriteOutcomes ==
    [][\A c \in CycleIds :
         /\ (cycles[c].pc = "mark_failed" /\ cycles'[c] # cycles[c] /\ faults' # faults)
               => /\ posts' = posts
                  /\ cycles'[c] = FinishPost(cycles[c])
         /\ (cycles[c].pc = "update_posted" /\ cycles'[c] # cycles[c] /\ faults' # faults)
               => /\ posts' = posts
                  /\ cycles'[c].pc = "mark_failed"
                  /\ cycles'[c].idx = cycles[c].idx
                  /\ cycles'[c].msg = "store error"
         /\ (cycles[c].pc = "mark_failed" /\ cycles[c].tr = "success" /\ QueryResolves(c))
               => /\ posts'[RowOf(c).id].status = "failed"
                  /\ posts'[RowOf(c).id].error_message = "store error"
         /\ (cycles[c].pc = "select" /\ QueryResolves(c)
                /\ Cardinality(DuePosts(posts, accounts, now)) <= BATCH_SIZE)
               => BatchIds(cycles'[c]) = DuePosts(posts, accounts, now)]_vars

\* a post was published once and the store has it 'failed' with the store error
C15_Witness ==
    \E p \in PostIds :
        /\ calls[p] = 1
        /\ posts[p].status = "failed"
        /\ posts[p].error_message = "store error"
        /\ posts[p].platform_post_id = NULL

(* C16: when the SELECT of the due posts rejects, the cycle ends at once: no
   post is changed, postToPlatform is not invoked, the other executions and the
   cron task are left as they are, and a later timer tick starts a new cycle. *)
C16_SelectFailureAbortsCycle ==
    [][/\ \A c \in CycleIds :
            (cycles[c].pc = "select" /\ cycles'[c] # cycles[c] /\ faults' # faults)
              => /\ posts' = posts
                 /\ calls' = calls
                 /\ cycles'[c] = IdleCycle
                 /\ \A d \in CycleIds \ {c} : cycles'[d] = cycles[d]
                 /\ schedulerTask' = schedulerTask
                 /\ cronTasks' = cronTasks
       /\ (TimerTick /\ faults > 0 /\ InFlight # CycleIds)
            => \E d \in CycleIds : cycles[d].pc = "idle" /\ cycles'[d].pc = "select"]_vars

\* the SELECT of a cycle was rejected with the post untouched, and the cycle
\* of a later tick has selected the post and called the transport for it
C16_Witness ==
    /\ Len(posts) = 1
    /\ faults = 1
    /\ posts[1].account_id = 1
    /\ posts[1].status = "scheduled"
    /\ calls[1] = 1
    /\ schedulerTask
    /\ \E c \in CycleIds : InFlight = {c} /\ cycles[c].pc = "transport"

(* C17: when the INSERT of the next occurrence rejects, the store is left as it
   is, so the published original keeps its 'posted' status, posted_at and
   platform_post_id, and processPost returns without calling markPostAsFailed:
   the cycle goes on with the next row. *)
C17_InsertFailureKeepsPosted ==
    [][\A c \in CycleIds :
         (cycles[c].pc = "insert_next" /\ cycles'[c] # cycles[c] /\ faults' # faults)
           => /\ posts' = posts
              /\ IsPosted(posts[RowOf(c).id]) => IsPosted(posts'[RowOf(c).id])
              /\ cycles'[c] = FinishPost(cycles[c])
              /\ cycles'[c].pc # "mark_failed" \/ cycles'[c].idx = cycles[c].idx + 1]_vars

\* an unlimited series: the root is published, the INSERT of its successor was
\* rejected, the cycle is over and the root is still 'posted'
C17_Witness ==
    /\ InFlight = {}
    /\ Len(posts) = 1
    /\ faults = 1
    /\ UnlimitedRecurring(SelectedRow(posts, accounts, 1))
    /\ IsPosted(posts[1])
    /\ calls[1] = 1

\* a step in which an execution of processScheduledPosts starts
CycleStarts == \E c \in CycleIds : cycles[c].pc = "idle" /\ cycles'[c].pc = "select"

(* C18: startScheduler called while the scheduler is running, or with
   SCHEDULER_ENABLED false, changes nothing: no cron task, no cycle. At most one
   cron task is scheduled, exactly when the module holds one, and none (and no
   cycle) when the scheduler is disabled. *)
C18_StartIdempotent ==
    [][/\ (StartScheduler /\ (schedulerTask \/ ~SCHEDULER_ENABLED)) => UNCHANGED vars
       /\ cronTasks' <= 1
       /\ schedulerTask' <=> cronTasks' = 1
       /\ ~SCHEDULER_ENABLED' => (cronTasks' = 0 /\ InFlight' = {})]_vars

\* the scheduler runs with its one cron task and every execution the model
\* allows is in flight
C18_Witness ==
    /\ schedulerTask
    /\ cronTasks = 1
    /\ InFlight = CycleIds

(* C19: stopScheduler on a running scheduler stops the cron task and forgets
   it, leaving the cycles in flight alone; called when the scheduler is not
   running it changes nothing; and while the scheduler is stopped a cycle
   starts only in a call of startScheduler. *)
C19_StopHaltsTicks ==
    [][/\ (StopScheduler /\ ~schedulerTask) => UNCHANGED vars
       /\ (StopScheduler /\ schedulerTask)
            => /\ ~schedulerTask'
               /\ cronTasks' = 0
               /\ cycles' = cycles
               /\ posts' = posts
       /\ (CycleStarts /\ ~schedulerTask) => (StartScheduler /\ schedulerTask')
       /\ TimerTick => (schedulerTask \/ UNCHANGED vars)]_vars

\* the scheduler was stopped while a cycle is in flight
C19_Witness ==
    /\ SCHEDULER_ENABLED
    /\ ~schedulerTask
    /\ cronTasks = 0
    /\ InFlight # {}

(* C20: startScheduler on an enabled scheduler that is not running starts
   exactly one execution of processScheduledPosts and, in the same call, after
   it, schedules the cron task: the cycle is in flight before any tick. *)
C20_StartRunsImmediateCycle ==
    [][(StartScheduler /\ SCHEDULER_ENABLED /\ ~schedulerTask)
         => /\ schedulerTask'
            /\ cronTasks = 0 /\ cronTasks' = 1
            /\ \E c \in CycleIds :
                  /\ cycles[c].pc = "idle"
                  /\ cycles'[c].pc = "select"
                  /\ \A d \in CycleIds \ {c} : cycles'[d] = cycles[d]]_vars

\* right after the first startScheduler: the immediate cycle awaits its SELECT
\* and the cron task is scheduled
C20_Witness ==
    /\ schedulerTask
    /\ cronTasks = 1
    /\ cycles[1].pc = "select"
    /\ \A c \in CycleIds \ {1} : cycles[c].pc = "idle"
    /\ faults = 0
    /\ \A p \in PostIds : posts[p].status = "scheduled" /\ calls[p] = 0

\* the day of the following calendar month with the same day-of-month as day
\* d, or the last day of that month when it is shorter
ClampedNextMonth(d) ==
    LET year  == IF getMonth(d) = 11 THEN getFullYear(d) + 1 ELSE getFullYear(d)
        month == IF getMonth(d) = 11 THEN 0 ELSE getMonth(d) + 1
        last  == DaysInMonth(year, month)
    IN  MakeDay(year, month, IF getDate(d) > last THEN last ELSE getDate(d))

(* C25: the next occurrence prepared for a monthly post is due on the same
   day-of-month of the following calendar month, or on the last day of that
   month when the day does not exist there; never in the month after. *)
C25_MonthlyClamped ==
    [][\A c \in CycleIds :
         (/\ cycles[c].pc = "update_posted"
          /\ cycles'[c].pc = "insert_next"
          /\ RowOf(c).repeat_frequency = "monthly")
         => LET nextDue == cycles'[c].next[1].scheduled_at
            IN  /\ nextDue = ClampedNextMonth(RowOf(c).scheduled_at)
                /\ getMonth(nextDue) = (getMonth(RowOf(c).scheduled_at) + 1) % 12]_vars

(* C29: when the repeat_until of a recurring post is earlier than the current
   time at the moment its publish has been recorded, no next occurrence is
   prepared or inserted, whatever the next due time and the count limit. *)
C29_PassedUntilStopsSeries ==
    [][\A c \in CycleIds :
         (/\ cycles[c].pc = "update_posted"
          /\ cycles'[c] # cycles[c]
          /\ RowOf(c).repeat_until # NULL
          /\ RowOf(c).repeat_until < now)
         => /\ cycles'[c].pc # "insert_next"
            /\ Len(posts') = Len(posts)]_vars

\* a recurring post was published after its repeat_until, its next due time is
\* within repeat_until and its count limit is not reached; no cycle is running
\* and no occurrence was added
C29_Witness ==
    /\ InFlight = {}
    /\ Len(posts) = 1
    /\ \E p \in PostIds :
          /\ posts[p].status = "posted"
          /\ posts[p].repeat_enabled
          /\ posts[p].repeat_until # NULL
          /\ posts[p].repeat_until < posts[p].posted_at
          /\ OneUnitLater(posts[p].repeat_frequency, posts[p].scheduled_at)
                <= posts[p].repeat_until
          /\ ~(Truthy(posts[p].repeat_count)
               /\ posts[p].repeat_occurrence >= posts[p].repeat_count)

\* cycle c is inside or just after the postThread call of a thread of 2
\* segments or more
InThread(c) ==
    /\ cycles[c].pc \in {"transport", "update_posted", "mark_failed"}
    /\ RowOf(c).mode = "thread"
    /\ Len(RowOf(c).thread) >= 2

(* C21: the requests postThread sends for a thread of n >= 2 segments carry
   the segments in array order, the first one without a reply reference and
   the k-th one, k >= 2, with the id the platform returned for the (k-1)-th as
   its reply reference; when postThread returns success it has sent n
   requests, threadIds is the list of the n returned ids in order and tweetId
   is the first of them. *)
C21_ThreadInOrder ==
    \A c \in CycleIds :
        InThread(c) =>
            LET cy == cycles[c]
                n  == Len(RowOf(c).thread)
            IN  /\ Len(cy.requests) <= n
                /\ \A k \in 1..Len(cy.requests) :
                      /\ cy.requests[k].text = RowOf(c).thread[k]
                      /\ cy.requests[k].reply =
                            (IF k = 1 THEN NULL ELSE cy.tweetIds[k - 1])
                /\ (cy.pc = "update_posted" /\ cy.tr = "success")
                      => /\ Len(cy.requests) = n
                         /\ Len(cy.threadIds) = n
                         /\ cy.threadIds = cy.tweetIds
                         /\ cy.tweetId = cy.threadIds[1]

\* postThread has returned success for a thread of 3 segments whose first two
\* ids differ
C21_Witness ==
    \E c \in CycleIds :
        /\ InThread(c)
        /\ cycles[c].pc = "update_posted"
        /\ Len(RowOf(c).thread) = 3
        /\ Len(cycles[c].requests) = 3
        /\ cycles[c].tweetIds[1] # cycles[c].tweetIds[2]

\* cycle c is about to record the failure of segment k of a thread, after the
\* segments before k were published
ThreadFailed(c) ==
    /\ InThread(c)
    /\ cycles[c].pc = "mark_failed"
    /\ cycles[c].tr = "failure"

(* C30 as stated: when the request of segment k of a thread fails, postThread
   sends no request after it and returns failure, and when processPost returns
   the post is 'failed' with the message of the transport, with no published
   id and no thread id list stored by it. *)
C30_PartialThreadEndsFailed ==
    [][\A c \in CycleIds :
         (ThreadFailed(c) /\ Finishes(c))
           => /\ Len(cycles[c].requests) = Len(cycles[c].tweetIds) + 1
              /\ posts'[RowOf(c).id].status = "failed"
              /\ posts'[RowOf(c).id].error_message = "transport error"
              /\ posts'[RowOf(c).id].platform_post_id = posts[RowOf(c).id].platform_post_id
              /\ posts'[RowOf(c).id].platform_thread_ids
                    = posts[RowOf(c).id].platform_thread_ids]_vars

(* C30 amended: when the request of segment k of a thread fails, postThread
   sends no request after it and returns failure, and processPost calls
   markPostAsFailed with the message of the transport; its UPDATE writes no
   published id and no thread id list, and the post becomes 'failed' with that
   message when that UPDATE succeeds. *)
C30_PartialThreadMarkedFailed ==
    [][\A c \in CycleIds :
         /\ (InThread(c) /\ cycles[c].pc = "transport" /\ cycles'[c] # cycles[c]
                /\ Len(cycles'[c].tweetIds) = Len(cycles[c].tweetIds))
               => /\ cycles'[c].pc = "mark_failed"
                  /\ cycles'[c].tr = "failure"
                  /\ cycles'[c].msg = "transport error"
                  /\ Len(cycles'[c].requests) = Len(cycles[c].tweetIds) + 1
         /\ (ThreadFailed(c) /\ cycles'[c] # cycles[c])
               => /\ Finishes(c)
                  /\ posts'[RowOf(c).id].platform_post_id
                        = posts[RowOf(c).id].platform_post_id
                  /\ posts'[RowOf(c).id].platform_thread_ids
                        = posts[RowOf(c).id].platform_thread_ids
         /\ (ThreadFailed(c) /\ QueryResolves(c))
               => /\ posts'[RowOf(c).id].status = "failed"
                  /\ posts'[RowOf(c).id].error_message = "transport error"]_vars

\* the request of the third segment of a thread has failed after two segments
\* were published, and processPost is recording the failure
C30_Witness ==
    \E c \in CycleIds :
        /\ ThreadFailed(c)
        /\ Len(RowOf(c).thread) = 3
        /\ Len(cycles[c].tweetIds) = 2
        /\ Len(cycles[c].requests) = 3
        /\ cycles[c].msg = "transport error"

(* C22: in every state of the store reached by manual publishes, PATCH
   requests and scheduler cycles, each post with status 'posted' has a
   platform_post_id, a posted_at and no error_message. *)
C22_PostedHasResult ==
    \A p \in PostIds :
        posts[p].status = "posted"
          => /\ posts[p].platform_post_id # NULL
             /\ posts[p].posted_at # NULL
             /\ posts[p].error_message = NULLSTR

\* a post is 'posted' that the scheduler never sent to the platform (it was
\* published manually) and that a PATCH request has rescheduled
C22_Witness ==
    \E p \in PostIds :
        /\ posts[p].status = "posted"
        /\ calls[p] = 0
        /\ posts[p].scheduled_at # NULL
        /\ posts[p].scheduled_at > now
        /\ api = IdleApi

(* C26: every write of the scheduler to a post changes a post that is stored
   as 'scheduled' into 'posted' or 'failed'; no write of the scheduler changes
   a post that is stored as 'draft', 'posted' or 'failed' (stated for the runs
   in which no store query has failed). *)
C26_WritesOnlyScheduled ==
    [][\A c \in CycleIds :
         (/\ cycles[c].pc \in {"update_posted", "mark_failed"}
          /\ cycles'[c] # cycles[c]
          /\ faults' = 0)
         => /\ posts[RowOf(c).id].status = "scheduled"
            /\ posts'[RowOf(c).id].status \in {"posted", "failed"}]_vars

(* C27: at the moment a cycle invokes the transport for a post, the post is
   stored as 'scheduled' with a scheduled_at that is not later than now, and
   its account is active (stated for the runs in which no store query has
   failed). *)
C27_FreshAtTransport ==
    [][\A p \in DOMAIN calls :
         (calls'[p] > calls[p] /\ faults' = 0)
           => /\ posts'[p].status = "scheduled"
              /\ posts'[p].scheduled_at # NULL
              /\ posts'[p].scheduled_at <= now'
              /\ accounts'[posts'[p].account_id].is_active]_vars

\* the post the step has added to the store
Created == posts'[Len(posts')]

(* C23 as stated: a post that is created with status 'scheduled', by POST
   /api/posts or by the recurrence of the scheduler, has at that moment a
   scheduled_at that is not null and lies in the future. *)
C23_CreatedInFuture ==
    [][(Len(posts') = Len(posts) + 1 /\ Created.status = "scheduled")
         => /\ Created.scheduled_at # NULL
            /\ Created.scheduled_at > now']_vars

(* C23 amended: a post that POST /api/posts creates with status 'scheduled'
   has a scheduled_at that is not null and lies in the future; a post that the
   recurrence creates has a scheduled_at that is not null and later than the
   scheduled_at of the post it follows, whatever the current time is. *)
C23_ScheduledAtCreation ==
    [][(Len(posts') = Len(posts) + 1 /\ Created.status = "scheduled")
         => /\ Created.scheduled_at # NULL
            /\ cycles' = cycles => Created.scheduled_at > now'
            /\ cycles' # cycles
                  => \E c \in CycleIds :
                        /\ cycles[c].pc = "insert_next"
                        /\ cycles'[c] # cycles[c]
                        /\ Created.scheduled_at > RowOf(c).scheduled_at]_vars

\* the store holds a post the recurrence has just created with a scheduled_at
\* that is not in the future, next to the post it follows, which POST
\* /api/posts created with a scheduled_at in the future
C23_Witness ==
    \E p \in PostIds :
        /\ posts[p].repeat_parent_id # NULL
        /\ posts[p].status = "scheduled"
        /\ posts[p].scheduled_at <= now
        /\ calls[p] = 0
        /\ posts[posts[p].repeat_parent_id].posted_at = now
        /\ posts[posts[p].repeat_parent_id].scheduled_at \in { d + 1 : d \in StartDays }

\* the id of the root of the series post p belongs to
SeriesOf(p) == IF posts[p].repeat_parent_id # NULL THEN posts[p].repeat_parent_id ELSE p

(* C24: in the store, the posts of one recurring series have different
   occurrence indexes; a post without parent reference has index 1, and a
   post with a parent reference has an index above 1 and refers to the root of
   its series, which has no parent reference (stated for the runs in which no
   store query has failed). *)
C24_SeriesIndexUnique ==
    faults = 0 =>
        \A p \in PostIds :
            /\ \A q \in PostIds :
                  (p # q /\ SeriesOf(p) = SeriesOf(q))
                     => posts[p].repeat_occurrence # posts[q].repeat_occurrence
            /\ posts[p].repeat_parent_id = NULL => posts[p].repeat_occurrence = 1
            /\ posts[p].repeat_parent_id # NULL
                  => /\ posts[p].repeat_occurrence > 1
                     /\ posts[p].repeat_parent_id \in PostIds
                     /\ posts[posts[p].repeat_parent_id].repeat_parent_id = NULL

(* C28: when the scheduler is started, its cycles keep running and no store
   query fails, every post that is 'scheduled', due and owned by an active
   account is eventually no longer 'scheduled', also in a backlog of more
   than BATCH_SIZE due posts. *)
C28_DueEventuallySettled ==
    \A p \in 1..(BATCH_SIZE + 2) :
        (p \in DuePosts(posts, accounts, now))
           ~> \/ /\ p \in PostIds
                 /\ posts[p].status \in {"posted", "failed"}
              \/ faults > 0

\* no store query has failed and the backlog of more than BATCH_SIZE posts is
\* worked off: the post of the newest due time was published, which no first
\* cycle selects, and no due post of an active account is left
C28_Witness ==
    /\ faults = 0
    /\ Len(posts) > BATCH_SIZE
    /\ DuePosts(posts, accounts, now) = {}
    /\ \E p \in PostIds :
          /\ posts[p].status = "posted"
          /\ Cardinality({ q \in PostIds :
                            /\ accounts[posts[q].account_id].is_active
                            /\ posts[q].scheduled_at < posts[p].scheduled_at })
                >= BATCH_SIZE

====
